---- MODULE Spec2Model ----
(***************************************************************************)
(* news-rss: a scraper task that periodically extracts the articles of     *)
(* every configured source into a shared, mutex-guarded map, and an HTTP   *)
(* server whose handlers render a source's cached articles as an RSS feed. *)
(*   src/src/lib.rs   Scraper::get_articles, Scraper::get_article, RTE     *)
(*   src/src/main.rs  main, server (feed handler), scrape                  *)
(***************************************************************************)
EXTENDS Integers, Sequences, FiniteSets, TLC

\* ------------------------------------------------------------------ bounds
\* Longest listing page (number of entries matched by article_selector).
MaxEntries == 2
\* Number of refresh cycles the scrape loop may start.
MaxCycles == 2
\* Number of feed-handler invocations that may be in flight at once.
MaxRequests == 1
\* Longest listing page of the calls get_articles taken as a whole.
MaxLinks == 3

\* ------------------------------------------------------------- text values
\* Text is a sequence of one-character strings, so that trimming is computed.
IsSpace(c) == c = " "

RECURSIVE TrimStart(_)
TrimStart(t) ==
    IF t = <<>> THEN <<>>
    ELSE IF IsSpace(Head(t)) THEN TrimStart(Tail(t)) ELSE t

RECURSIVE TrimEnd(_)
TrimEnd(t) ==
    IF t = <<>> THEN <<>>
    ELSE IF IsSpace(t[Len(t)]) THEN TrimEnd(SubSeq(t, 1, Len(t) - 1)) ELSE t

\* str::trim
Trim(t) == TrimEnd(TrimStart(t))

\* Option: None is the empty sequence, Some(x) the one-element sequence.
None == <<>>

Some(x) == <<x>>

\* Result: Ok(v) and Err(kind); kind names the failure.
Ok(v) == [ok |-> TRUE, val |-> v]

Err(kind) == [ok |-> FALSE, err |-> kind]

\* ------------------------------------------------------------------- urls
\* A Url is its origin and its path.  Url::parse(base).join(path), for the
\* root-relative paths ("/...") the listing pages carry.
UrlJoin(base, path) == [origin |-> base.origin, path |-> path]

\* str::parse::<Url>: only an absolute url (one with an origin) parses.
ParseUrl(s) == IF s.origin = None THEN Err("UrlParse") ELSE Ok([origin |-> s.origin[1], path |-> s.path])

\* Url::as_str: the serialisation of a Url, origin followed by path.
AsStr(u) == <<u.origin, u.path>>

\* ---------------------------------------------------------------- scrapers
\* The configured source (lib.rs RTE) and a second Scraper value, so that
\* scrape(&[..]) is exercised on a slice of several sources.
RTE ==
    [name |-> "RTE",
     base_url |-> [origin |-> "https://www.rte.ie", path |-> "/"],
     news_url |-> "/news/",
     image_selector |-> None]

ALT ==
    [name |-> "ALT",
     base_url |-> [origin |-> "https://alt.example", path |-> "/"],
     news_url |-> "/latest/",
     image_selector |-> Some("img")]

\* The slice handed to scrape, in slice order.
Scrapers == <<RTE, ALT>>

Names == {Scrapers[i].name : i \in 1..Len(Scrapers)}

ScraperOf(n) == CHOOSE s \in {Scrapers[i] : i \in 1..Len(Scrapers)} : s.name = n

\* Variant: the path is taken as a url of its own, not joined to the base.
UrlUnjoined(scraper, path) == [origin |-> "", path |-> path]

\* Scraper::url
Url(scraper, path) == UrlJoin(scraper.base_url, path)

\* ------------------------------------------------------------------- dates
\* Date text that matches "Updated / %A, %-d %b %Y %R".
MatchingDates ==
    {"Updated / Monday, 1 Nov 2021 10:00",
     "Updated / Sunday, 28 Mar 2021 01:30",
     "Updated / Sunday, 31 Oct 2021 01:30"}

\* The naive (zoneless) date-time a matching text names.
NaiveOf(text) ==
    IF text = "Updated / Monday, 1 Nov 2021 10:00" THEN "2021-11-01 10:00"
    ELSE IF text = "Updated / Sunday, 28 Mar 2021 01:30" THEN "2021-03-28 01:30"
    ELSE "2021-10-31 01:30"

\* Local times Europe/Dublin skips (on 28 Mar 2021 the clocks go from 01:00
\* +00:00 to 02:00 +01:00).
DublinGap == {"2021-03-28 01:30"}

\* Local times Europe/Dublin has twice (on 31 Oct 2021 the clocks go from
\* 02:00 +01:00 back to 01:00 +00:00).
DublinFold == {"2021-10-31 01:30"}

\* The instants Utc::now() may return.
Clock == {"2021-11-02 09:00 UTC", "2021-10-31 00:30 UTC", "2021-10-31 01:30 UTC"}

\* A DateTime<Tz> in Europe/Dublin: the local date-time and the offset from
\* UTC in force, which together fix the instant.
DateTime(local, offset) == [tz |-> "Europe/Dublin", local |-> local, offset |-> offset]

\* DateTime<Utc>::with_timezone(&Europe::Dublin)
WithTimezone(utc) ==
    IF utc = "2021-11-02 09:00 UTC" THEN DateTime("2021-11-02 09:00", "+00:00")
    ELSE IF utc = "2021-10-31 00:30 UTC" THEN DateTime("2021-10-31 01:30", "+01:00")
    ELSE DateTime("2021-10-31 01:30", "+00:00")

\* DateTime::naive_local: the local date-time, the offset left out.
NaiveLocal(d) == d.local

\* NaiveDateTime::parse_from_str(date.trim(), pattern)
ParseNaive(text) ==
    LET t == Trim(text)
    IN IF Len(t) = 1 /\ t[1] \in MatchingDates THEN Ok(NaiveOf(t[1])) ELSE Err("ParseError")

\* TimeZone::from_local_datetime: the offsets a local date-time has in
\* Europe/Dublin, the earlier instant first (LocalResult None, Single or
\* Ambiguous).
LocalOffsets(naive) ==
    IF naive \in DublinGap THEN <<>>
    ELSE IF naive \in DublinFold THEN <<"+01:00", "+00:00">>
    ELSE <<"+00:00">>

\* Europe::Dublin.from_local_datetime(naive).earliest()
DublinEarliest(naive) ==
    IF LocalOffsets(naive) = <<>> THEN None
    ELSE Some(DateTime(naive, LocalOffsets(naive)[1]))

\* RTE.parse_date: text that does not parse is replaced by the local
\* date-time of the current instant.
ParseDate(text, now) ==
    LET parsed == ParseNaive(text)
        naive == IF parsed.ok THEN parsed.val ELSE NaiveLocal(WithTimezone(now))
        d == DublinEarliest(naive)
    IN IF d = None THEN Err("NoLocalDate") ELSE Ok(d[1])

\* DateTime::to_rfc2822: the local date-time followed by the zone's offset.
ToRfc2822(d) == <<"rfc2822", d.local, d.offset>>

\* ------------------------------------------------------------ the remote site
\* The hrefs the listing page of a source may link to.
Hrefs(scraper) == IF scraper.name = "RTE" THEN {"/a", "/b"} ELSE {"/c"}

\* The headline text of the entry that links to href, surrounding blanks
\* included.
HeadlineText(href) ==
    IF href = "/a" THEN <<" ", "A", " ">>
    ELSE IF href = "/b" THEN <<"B", " ">>
    ELSE <<" ", "C">>

\* The fragment article_selector matches for an entry linking to href (None:
\* the anchor has no href).
Entry(href) ==
    [headline |-> IF href = None THEN <<"N">> ELSE HeadlineText(href[1]),
     href |-> href]

Entries(scraper) == {Entry(Some(h)) : h \in Hrefs(scraper)} \cup {Entry(None)}

RECURSIVE SeqsUpTo(_, _)
SeqsUpTo(S, n) ==
    IF n = 0 THEN {<<>>}
    ELSE LET shorter == SeqsUpTo(S, n - 1)
         IN shorter \cup {Append(q, x) : q \in {p \in shorter : Len(p) = n - 1}, x \in S}

\* The listing documents: what news.select(article_selector) yields, in
\* document order.
Listings(scraper) == SeqsUpTo(Entries(scraper), MaxEntries)

\* The text of the date match of an article document in order.
GoodDateText == <<" ", "Updated / Monday, 1 Nov 2021 10:00">>

\* The article document served at a link.
Page(link) ==
    [body |-> <<"<p>", link.path, "</p>">>,
     img_src |-> Some([origin |-> Some(link.origin), path |-> <<"img", link.path>>]),
     date_text |-> GoodDateText]

\* The date texts an article document may carry.
DateTexts ==
    {GoodDateText,
     <<"Updated / Sunday, 28 Mar 2021 01:30", " ">>,
     <<"1 November 2021">>}

\* The article documents a site may serve at a link: the image match with
\* an absolute src, with a relative src or without src.
Pages(link) ==
    {[body |-> Page(link).body, img_src |-> img, date_text |-> text] :
        img \in {Page(link).img_src, Some([origin |-> None, path |-> <<"img", link.path>>]), None},
        text \in DateTexts}

\* client.get(url).send().await?.error_for_status()?.text().await?: a network
\* failure or a non-success status is an error, else the document.
TransportErr == Err("Transport")

PageResponses(link) == {TransportErr} \cup {Ok(document) : document \in Pages(link)}

ListingResponses(scraper) == {TransportErr} \cup {Ok(l) : l \in Listings(scraper)}

\* ------------------------------------------------------------- get_article
\* get_article up to its first await: the trimmed headline and the link
\* resolved against the base url; an entry whose anchor has no href fails
\* here, before any request is sent.
GetArticleLink(scraper, entry) ==
    IF entry.href = None THEN Err("MissingAttribute")
    ELSE Ok([headline |-> Trim(entry.headline), link |-> Url(scraper, entry.href[1])])

\* Variant: an image match without src gives an article without image.
GetImageOptional(scraper, document) ==
    IF scraper.image_selector = None \/ document.img_src = None THEN Ok(None)
    ELSE LET u == ParseUrl(document.img_src[1])
         IN IF u.ok THEN Ok(Some(u.val)) ELSE u

\* The image of an article document: None without an image selector, else
\* the parsed src of the match, which must be there.
GetImage(scraper, document) ==
    IF scraper.image_selector = None THEN Ok(None)
    ELSE IF document.img_src = None THEN Err("MissingAttribute")
    ELSE LET u == ParseUrl(document.img_src[1])
         IN IF u.ok THEN Ok(Some(u.val)) ELSE u

\* get_article from the response of its page request on: body, image, date.
GetArticlePage(scraper, started, resp, now) ==
    IF ~resp.ok THEN resp
    ELSE LET document == resp.val
             image == GetImage(scraper, document)
             date == ParseDate(document.date_text, now)
         IN IF ~image.ok THEN image
            ELSE IF ~date.ok THEN date
            ELSE Ok([headline |-> started.headline,
                     link |-> started.link,
                     body |-> document.body,
                     image |-> image.val,
                     date |-> date.val])

\* A get_article future: waiting for its page, or finished with its Article.
Fetching(started) == [st |-> "fetching", started |-> started]

Done(article) == [st |-> "done", article |-> article]

\* The first poll of try_join_all over the entries, in document order: every
\* get_article runs to its page request; the first one that fails ends the join.
RECURSIVE Launch(_, _)
Launch(scraper, entries) ==
    IF entries = <<>> THEN Ok(<<>>)
    ELSE LET first == GetArticleLink(scraper, Head(entries))
         IN IF ~first.ok THEN first
            ELSE LET rest == Launch(scraper, Tail(entries))
                 IN IF ~rest.ok THEN rest
                    ELSE Ok(<<Fetching(first.val)>> \o rest.val)

\* try_join_all is ready with Ok once every future has its output; the
\* outputs are kept at the index of their future.
AllDone(futs) == \A i \in 1..Len(futs) : futs[i].st = "done"

Collect(futs) == [i \in 1..Len(futs) |-> futs[i].article]

\* Variant: the outputs are kept in the order the futures complete in (the
\* output takes the first slot still waiting, whose future moves to slot i).
StoreOutputByCompletion(futs, i, article) ==
    LET j == CHOOSE k \in 1..Len(futs) :
                 futs[k].st = "fetching" /\ \A m \in 1..(k - 1) : futs[m].st # "fetching"
    IN [futs EXCEPT ![j] = Done(article), ![i] = IF i = j THEN Done(article) ELSE futs[j]]

\* The output of the future at index i is stored at index i.
StoreOutput(futs, i, article) == [futs EXCEPT ![i] = Done(article)]

\* ------------------------------------------------------------------- state
VARIABLES
    main_pc,    \* main: "select" while both tasks are polled, "exited" after
    server_pc,  \* server: "serving", "returned" once serve has ended, "dropped"
    scrape_pc,  \* scrape: "start", "join", "insert", "sleep", "returned", "dropped"
    cycle,      \* number of iterations of scrape's loop begun
    src,        \* per source, the get_articles future of the current cycle
    ins,        \* index of scrape's for loop over feeds.zip(articles)
    feeds,      \* the HashMap behind the mutex: name -> Vec<Article>
    lock,       \* owner of the mutex: <<>>, <<"scrape">> or <<"req", r>>
    req,        \* the feed-handler invocations in flight
    sent,       \* history: the responses sent since the last insert
    committed,  \* history: the map as of the last release of the lock by scrape
    log         \* history (SpecExtract, SpecArticle): the requests completed,
                \* in order of completion, as <<source, entry (0: the
                \* listing), ok>>, in SpecArticle followed by what was served

vars == <<main_pc, server_pc, scrape_pc, cycle, src, ins, feeds, lock, req, sent, committed, log>>

Requests == 1..MaxRequests

Free == <<>>

ByScrape == <<"scrape">>

ByReq(r) == <<"req", r>>

\* Variant: the lock is handed out whoever holds it.
CanLockAlways(owner) == TRUE

\* Mutex::lock().await completes only while nobody holds the mutex.
CanLock(owner) == owner = Free

\* HashMap::insert: the value of key k is replaced by v, the rest is kept.
Insert(map, k, v) == [n \in DOMAIN map \cup {k} |-> IF n = k THEN v ELSE map[n]]

\* A get_articles future: not created, awaiting its listing, failed, or
\* joining the get_article futures of its entries.
SrcIdle == [pc |-> "idle", entries |-> <<>>, futs |-> <<>>]

SrcListing == [pc |-> "listing", entries |-> <<>>, futs |-> <<>>]

SrcErr == [pc |-> "err", entries |-> <<>>, futs |-> <<>>]

SrcArticles(entries, futs) == [pc |-> "articles", entries |-> entries, futs |-> futs]

\* get_articles has returned Ok: its article futures all have their output.
SrcOk(n) == src[n].pc = "articles" /\ AllDone(src[n].futs)

ReqIdle == [pc |-> "idle", name |-> ""]

Init ==
    /\ main_pc = "select"
    /\ server_pc = "serving"
    /\ scrape_pc = "start"
    /\ cycle = 0
    /\ src = [n \in Names |-> SrcIdle]
    /\ ins = 0
    /\ feeds = << >>
    /\ lock = Free
    /\ req = [r \in Requests |-> ReqIdle]
    /\ sent = {}
    /\ committed = << >>
    /\ log = << >>

\* select! polls server and scrape in main's task; main is past it once
\* either has returned.
Running == main_pc = "select"

\* main returns: the runtime is shut down and with it the handlers in flight.
HandlersGone ==
    /\ req' = [r \in Requests |-> ReqIdle]
    /\ lock' = Free
    /\ sent' = {}

\* ------------------------------------------------------------- feed handler
\* One rss item per article.
FeedItem(article) ==
    [title |-> article.headline,
     guid |-> [value |-> AsStr(article.link), permalink |-> TRUE],
     link |-> AsStr(article.link),
     pub_date |-> ToRfc2822(article.date),
     content |-> article.body]

\* Variant: the items are collected last article first.
FeedItemsReversed(feed) == [i \in 1..Len(feed) |-> FeedItem(feed[Len(feed) + 1 - i])]

\* feed.iter().map(..).collect()
FeedItems(feed) == [i \in 1..Len(feed) |-> FeedItem(feed[i])]

\* ChannelBuilder::default().title(name).items(items).build().to_string()
Channel(name, items) == <<"rss", [title |-> name, items |-> items]>>

NotFound == [status |-> 404, body |-> None]

\* Variant: a name without an entry is answered like an empty entry.
FeedResponseOrEmpty(map, name) ==
    [status |-> 200,
     body |-> Some(Channel(name, FeedItems(IF name \in DOMAIN map THEN map[name] ELSE <<>>)))]

\* The handler's answer from the map it has locked: 404 when the name has no
\* entry, else 200 with the channel of the entry's articles.
FeedResponse(map, name) ==
    IF name \notin DOMAIN map THEN NotFound
    ELSE [status |-> 200, body |-> Some(Channel(name, FeedItems(map[name])))]

\* A request for the route of name n reaches the handler feed(n), which awaits
\* the lock.  Every scraper of the slice has its route, as RTE has "/rte.rss".
ReqArrive(r, n) ==
    /\ Running /\ server_pc = "serving"
    /\ req[r].pc = "idle"
    /\ \A q \in 1..(r - 1) : req[q].pc # "idle"
    /\ req' = [req EXCEPT ![r] = [pc |-> "wait", name |-> n]]
    /\ UNCHANGED <<main_pc, server_pc, scrape_pc, cycle, src, ins, feeds, lock, sent, committed, log>>

\* let feeds = feeds.lock().await
ReqLock(r) ==
    /\ Running
    /\ req[r].pc = "wait"
    /\ CanLock(lock)
    /\ lock' = ByReq(r)
    /\ req' = [req EXCEPT ![r].pc = "locked"]
    /\ UNCHANGED <<main_pc, server_pc, scrape_pc, cycle, src, ins, feeds, sent, committed, log>>

\* Variant: the handler takes the entry out of the map (remove, not get).
ReqRespondTaking(r) ==
    /\ Running
    /\ req[r].pc = "locked"
    /\ sent' = sent \cup {[name |-> req[r].name, resp |-> FeedResponse(feeds, req[r].name)]}
    /\ feeds' = [n \in DOMAIN feeds \ {req[r].name} |-> feeds[n]]
    /\ req' = [req EXCEPT ![r] = ReqIdle]
    /\ lock' = Free
    /\ UNCHANGED <<main_pc, server_pc, scrape_pc, cycle, src, ins, committed, log>>

\* The rest of the handler: lookup, render, return (the guard is dropped).
ReqRespond(r) ==
    /\ Running
    /\ req[r].pc = "locked"
    /\ sent' = sent \cup {[name |-> req[r].name, resp |-> FeedResponse(feeds, req[r].name)]}
    /\ req' = [req EXCEPT ![r] = ReqIdle]
    /\ lock' = Free
    /\ UNCHANGED <<main_pc, server_pc, scrape_pc, cycle, src, ins, feeds, committed, log>>

\* serve(..).await returns (an error of the listener): select! completes and
\* drops scrape.
ServerStop ==
    /\ Running /\ server_pc = "serving"
    /\ server_pc' = "returned"
    /\ main_pc' = "exited"
    /\ scrape_pc' = "dropped"
    /\ src' = [n \in Names |-> SrcIdle]
    /\ ins' = 0
    /\ HandlersGone
    /\ UNCHANGED <<cycle, feeds, committed, log>>

\* ------------------------------------------------------------------ scrape
\* The top of the loop: try_join_all over the sources is created and polled;
\* every get_articles sends its listing request.
StartCycle ==
    /\ cycle' = cycle + 1
    /\ src' = [n \in Names |-> SrcListing]
    /\ scrape_pc' = "join"

\* Variant: scrape ends on its own, the server and its handlers go on.
ScrapeReturnsAlone ==
    /\ scrape_pc' = "returned"
    /\ UNCHANGED <<main_pc, server_pc, req, lock, sent>>

\* try_join_all(..).await? with an Err: scrape returns it; select! completes
\* and drops server.
ScrapeReturns ==
    /\ scrape_pc' = "returned"
    /\ main_pc' = "exited"
    /\ server_pc' = "dropped"
    /\ HandlersGone

\* reqwest::ClientBuilder::new().build()?, then the first cycle.
ClientBuild ==
    /\ Running /\ scrape_pc = "start"
    /\ \E built \in BOOLEAN :
          IF built THEN StartCycle /\ UNCHANGED <<main_pc, server_pc, req, lock, sent>>
          ELSE ScrapeReturns /\ UNCHANGED <<cycle, src>>
    /\ UNCHANGED <<ins, feeds, committed, log>>

\* get_articles from the listing response to the launch of the article
\* requests.
GetArticlesStart(scraper, resp) ==
    IF ~resp.ok THEN resp
    ELSE Launch(scraper, resp.val)

\* The output of get_article future i, given the page requests that fail.
PageOutput(scraper, fut, failed, now) ==
    GetArticlePage(scraper, fut.started,
                   IF failed THEN TransportErr ELSE Ok(Page(fut.started.link)), now)

\* Variant: a listing request that fails is taken for an empty listing.
AfterListingLenient(scraper, resp) ==
    IF ~resp.ok THEN SrcArticles(<<>>, <<>>)
    ELSE LET futs == GetArticlesStart(scraper, resp)
         IN IF futs.ok THEN SrcArticles(resp.val, futs.val) ELSE SrcErr

\* The get_articles future after the listing response: failed, or joining
\* the get_article futures launched.
AfterListing(scraper, resp) ==
    LET futs == GetArticlesStart(scraper, resp)
    IN IF futs.ok THEN SrcArticles(resp.val, futs.val) ELSE SrcErr

\* Variant: a failed get_article future is left out of the join and the
\* other entries go on.
AfterPageSkipFailed(s, i, out) ==
    IF out.ok THEN [s EXCEPT !.futs = StoreOutput(@, i, out.val)]
    ELSE [s EXCEPT !.entries = SubSeq(@, 1, i - 1) \o SubSeq(@, i + 1, Len(@)),
                   !.futs = SubSeq(@, 1, i - 1) \o SubSeq(@, i + 1, Len(@))]

\* The get_articles future s after its get_article future i has completed
\* with out: an Err ends the join (and drops the rest), an Ok is stored.
AfterPage(s, i, out) ==
    IF out.ok THEN [s EXCEPT !.futs = StoreOutput(@, i, out.val)] ELSE SrcErr

\* get_articles as a whole: the page responses taken in document order,
\* entry i failing when i is in fails.
RECURSIVE RunPages(_, _, _, _, _)
RunPages(scraper, s, i, fails, now) ==
    IF s.pc # "articles" \/ i > Len(s.futs) THEN s
    ELSE RunPages(scraper, AfterPage(s, i, PageOutput(scraper, s.futs[i], i \in fails, now)),
                  i + 1, fails, now)

\* The get_articles future once it is complete.
GetArticlesOutcome(scraper, resp, fails, now) ==
    RunPages(scraper, AfterListing(scraper, resp), 1, fails, now)

\* What the get_articles future of a source may complete with: any listing
\* response, any page request failing or not.
Outcomes ==
    [n \in Names |->
        UNION {{GetArticlesOutcome(ScraperOf(n), resp, fails, now) :
                    fails \in SUBSET (IF resp.ok THEN 1..Len(resp.val) ELSE {}),
                    now \in Clock} :
               resp \in ListingResponses(ScraperOf(n))}]

\* Variant: a source whose extraction fails has its entry emptied before the
\* error is returned.
GetArticlesClearing(n) ==
    /\ Running /\ scrape_pc = "join"
    /\ src[n].pc = "listing"
    /\ \E out \in Outcomes[n] :
          /\ src' = [src EXCEPT ![n] = out]
          /\ IF out.pc = "err"
             THEN ScrapeReturns /\ feeds' = Insert(feeds, n, <<>>)
             ELSE UNCHANGED <<main_pc, server_pc, scrape_pc, req, lock, sent, feeds>>
    /\ UNCHANGED <<cycle, ins, committed, log>>

\* Variant: a cycle with a failed source is given up and the loop sleeps
\* until the next one.
GetArticlesRetrying(n) ==
    /\ Running /\ scrape_pc = "join"
    /\ src[n].pc = "listing"
    /\ \E out \in Outcomes[n] :
          /\ src' = [src EXCEPT ![n] = out]
          /\ scrape_pc' = IF out.pc = "err" THEN "sleep" ELSE scrape_pc
    /\ UNCHANGED <<main_pc, server_pc, req, lock, sent, cycle, ins, feeds, committed, log>>

\* The get_articles future of source n completes within the join of scrape.
GetArticles(n) ==
    /\ Running /\ scrape_pc = "join"
    /\ src[n].pc = "listing"
    /\ \E out \in Outcomes[n] :
          /\ src' = [src EXCEPT ![n] = out]
          /\ IF out.pc = "err" THEN ScrapeReturns
             ELSE UNCHANGED <<main_pc, server_pc, scrape_pc, req, lock, sent>>
    /\ UNCHANGED <<cycle, ins, feeds, committed, log>>

\* The Vec<Vec<Article>> try_join_all yields, in slice order.
Articles == [k \in 1..Len(Scrapers) |-> Collect(src[Scrapers[k].name].futs)]

\* Every source is Ok: let mut out = out.lock().await
ScrapeLock ==
    /\ Running /\ scrape_pc = "join"
    /\ \A n \in Names : SrcOk(n)
    /\ CanLock(lock)
    /\ lock' = ByScrape
    /\ scrape_pc' = "insert"
    /\ ins' = 1
    /\ UNCHANGED <<main_pc, server_pc, cycle, src, feeds, req, sent, committed, log>>

\* Variant: the new articles are added to the entry the map already has.
CommitMerging(map, name, articles) ==
    Insert(map, name, IF name \in DOMAIN map THEN map[name] \o articles ELSE articles)

\* Variant: a source that lists nothing loses its entry.
CommitOrRemove(map, name, articles) ==
    IF articles = <<>> THEN [n \in DOMAIN map \ {name} |-> map[n]]
    ELSE Insert(map, name, articles)

\* What one iteration of the for loop leaves in the map.
Commit(map, name, articles) == Insert(map, name, articles)

\* out.insert(feed.name, articles)
ScrapeInsert ==
    /\ Running /\ scrape_pc = "insert"
    /\ ins <= Len(Scrapers)
    /\ feeds' = Commit(feeds, Scrapers[ins].name, Articles[ins])
    /\ ins' = ins + 1
    /\ sent' = {}
    /\ UNCHANGED <<main_pc, server_pc, scrape_pc, cycle, src, lock, req, committed, log>>

\* Variant: the guard is kept over the sleep (no drop(out)).
ScrapeUnlockKeeping ==
    /\ Running /\ scrape_pc = "insert"
    /\ ins > Len(Scrapers)
    /\ scrape_pc' = "sleep"
    /\ ins' = 0
    /\ src' = [n \in Names |-> SrcIdle]
    /\ committed' = feeds
    /\ UNCHANGED <<main_pc, server_pc, cycle, feeds, lock, req, sent, log>>

\* drop(out), and the sleep begins.
ScrapeUnlock ==
    /\ Running /\ scrape_pc = "insert"
    /\ ins > Len(Scrapers)
    /\ lock' = Free
    /\ scrape_pc' = "sleep"
    /\ ins' = 0
    /\ src' = [n \in Names |-> SrcIdle]
    /\ committed' = feeds
    /\ UNCHANGED <<main_pc, server_pc, cycle, feeds, req, sent, log>>

\* Variant: the loop is left after the sleep and scrape returns Ok.
SleepDoneReturning ==
    /\ Running /\ scrape_pc = "sleep"
    /\ ScrapeReturns
    /\ UNCHANGED <<cycle, src, ins, feeds, committed, log>>

\* sleep(..).await is over: the next iteration.
SleepDone ==
    /\ Running /\ scrape_pc = "sleep"
    /\ cycle < MaxCycles
    /\ StartCycle
    /\ UNCHANGED <<main_pc, server_pc, ins, feeds, lock, req, sent, committed, log>>

Next ==
    \/ ClientBuild
    \/ \E n \in Names : GetArticles(n)
    \/ ScrapeLock
    \/ ScrapeInsert
    \/ ScrapeUnlock
    \/ SleepDone
    \/ ServerStop
    \/ \E r \in Requests, n \in Names : ReqArrive(r, n)
    \/ \E r \in Requests : ReqLock(r)
    \/ \E r \in Requests : ReqRespond(r)

Spec == Init /\ [][Next]_vars

\* ------------------------------------------------- get_articles, step by step
\* The calls get_articles of one cycle on their own, each await a step: the
\* listing request, then the page requests in whatever order they complete.
InitExtract ==
    /\ main_pc = "select"
    /\ server_pc = "serving"
    /\ scrape_pc = "join"
    /\ cycle = 1
    /\ src = [n \in Names |-> SrcListing]
    /\ ins = 0
    /\ feeds = << >>
    /\ lock = Free
    /\ req = [r \in Requests |-> ReqIdle]
    /\ sent = {}
    /\ committed = << >>
    /\ log = << >>

\* The listing request of source n completes.
ListingFetched(n) ==
    /\ src[n].pc = "listing"
    /\ \E resp \in ListingResponses(ScraperOf(n)) :
          /\ src' = [src EXCEPT ![n] = AfterListing(ScraperOf(n), resp)]
          /\ log' = Append(log, <<n, 0, resp.ok>>)
    /\ UNCHANGED <<main_pc, server_pc, scrape_pc, cycle, ins, feeds, lock, req, sent, committed>>

\* The page request of entry i of source n completes.
ArticleFetched(n, i) ==
    /\ src[n].pc = "articles"
    /\ i \in 1..Len(src[n].futs)
    /\ src[n].futs[i].st = "fetching"
    /\ \E failed \in BOOLEAN, now \in Clock :
          /\ src' = [src EXCEPT ![n] = AfterPage(@, i, PageOutput(ScraperOf(n), @.futs[i], failed, now))]
          /\ log' = Append(log, <<n, i, ~failed>>)
    /\ UNCHANGED <<main_pc, server_pc, scrape_pc, cycle, ins, feeds, lock, req, sent, committed>>

NextExtract ==
    \/ \E n \in Names : ListingFetched(n)
    \/ \E n \in Names, i \in 1..MaxEntries : ArticleFetched(n, i)

SpecExtract == InitExtract /\ [][NextExtract]_vars

\* --------------------------------------- get_articles on any site content
\* One call get_articles, of any one source, the site serving any listing and
\* any of its documents; the log keeps what was served:
\* <<source, 0, ok, response>> for the listing request and
\* <<source, entry, ok, response, clock reading>> for a page request.
InitArticle ==
    /\ main_pc = "select"
    /\ server_pc = "serving"
    /\ scrape_pc = "join"
    /\ cycle = 1
    /\ \E n \in Names : src = [m \in Names |-> IF m = n THEN SrcListing ELSE SrcIdle]
    /\ ins = 0
    /\ feeds = << >>
    /\ lock = Free
    /\ req = [r \in Requests |-> ReqIdle]
    /\ sent = {}
    /\ committed = << >>
    /\ log = << >>

\* The listing request of source n completes.
ListingServed(n) ==
    /\ src[n].pc = "listing"
    /\ \E resp \in ListingResponses(ScraperOf(n)) :
          /\ src' = [src EXCEPT ![n] = AfterListing(ScraperOf(n), resp)]
          /\ log' = Append(log, <<n, 0, resp.ok, resp>>)
    /\ UNCHANGED <<main_pc, server_pc, scrape_pc, cycle, ins, feeds, lock, req, sent, committed>>

\* The page request of entry i of source n completes and get_article runs
\* to its end.
PageServed(n, i) ==
    /\ src[n].pc = "articles"
    /\ i \in 1..Len(src[n].futs)
    /\ src[n].futs[i].st = "fetching"
    /\ \E resp \in PageResponses(src[n].futs[i].started.link), now \in Clock :
          /\ src' = [src EXCEPT ![n] =
                        AfterPage(@, i, GetArticlePage(ScraperOf(n), @.futs[i].started, resp, now))]
          /\ log' = Append(log, <<n, i, resp.ok, resp, now>>)
    /\ UNCHANGED <<main_pc, server_pc, scrape_pc, cycle, ins, feeds, lock, req, sent, committed>>

NextArticle ==
    \/ \E n \in Names : ListingServed(n)
    \/ \E n \in Names, i \in 1..MaxEntries : PageServed(n, i)

SpecArticle == InitArticle /\ [][NextArticle]_vars

\* ------------------------------------------------- get_articles, as a whole
\* The calls get_articles on listings of up to MaxLinks entries, every page
\* request answered: the links of the articles returned.
LinkHrefs == {"/a", "/b", "/c"}

LinkListings == SeqsUpTo({Entry(Some(h)) : h \in LinkHrefs} \cup {Entry(None)}, MaxLinks)

\* get_articles of source n runs to its end on a listing.
GetArticlesOf(n) ==
    /\ src[n].pc = "listing"
    /\ \E listing \in LinkListings, now \in Clock :
          src' = [src EXCEPT ![n] = GetArticlesOutcome(ScraperOf(n), Ok(listing), {}, now)]
    /\ UNCHANGED <<main_pc, server_pc, scrape_pc, cycle, ins, feeds, lock, req, sent, committed, log>>

NextLinks == \E n \in Names : GetArticlesOf(n)

SpecLinks == InitExtract /\ [][NextLinks]_vars

\* ------------------------------------------------------------------ claims
\* Event e1 is in the log before event e2.
LoggedBefore(e1, e2) == \E p, q \in 1..Len(log) : p < q /\ log[p] = e1 /\ log[q] = e2

\* C1: when get_articles returns Ok for a listing of N entries, it returns
\* exactly N articles, and the i-th one is built from the i-th entry (its
\* trimmed headline, its href on the source's origin), in whatever order the
\* page requests completed; and it has returned Ok once every page of the
\* listing is fetched.
C1_ArticlesInListingOrder ==
    /\ \A n \in Names :
        SrcOk(n) =>
            LET out == Collect(src[n].futs)
                entries == src[n].entries
            IN /\ Len(out) = Len(entries)
               /\ \A i \in 1..Len(entries) :
                     /\ out[i].link.origin = ScraperOf(n).base_url.origin
                     /\ out[i].link.path = entries[i].href[1]
                     /\ out[i].headline = Trim(entries[i].headline)
                     /\ out[i].body = Page(out[i].link).body
    /\ \A n \in Names :
          (/\ src[n].pc = "articles"
           /\ \A i \in 1..Len(src[n].entries) : \E p \in 1..Len(log) : log[p] = <<n, i, TRUE>>)
              => SrcOk(n)

\* C1 witness: RTE's two different entries are both done, the second page
\* having arrived before the first.
C1_Witness ==
    /\ SrcOk("RTE")
    /\ Len(src["RTE"].entries) = 2
    /\ src["RTE"].entries[1] # src["RTE"].entries[2]
    /\ LoggedBefore(<<"RTE", 2, TRUE>>, <<"RTE", 1, TRUE>>)

\* C2: once the page request of any entry has failed, get_articles of that
\* source has returned an error: it is not Ok and no article is kept, those
\* already fetched included.
C2_PageFailureFailsAll ==
    \A p \in 1..Len(log) :
        (log[p][2] >= 1 /\ ~log[p][3]) =>
            /\ src[log[p][1]].pc = "err"
            /\ ~SrcOk(log[p][1])
            /\ src[log[p][1]].futs = <<>>

\* C2 witness: RTE's first page was fetched, then its second page failed.
C2_Witness == LoggedBefore(<<"RTE", 1, TRUE>>, <<"RTE", 2, FALSE>>)

\* The entry of a name in a map, as an Option.
EntryOf(map, n) == IF n \in DOMAIN map THEN Some(map[n]) ELSE None

\* The items of a 200 response.
ItemsOf(resp) == resp.body[1][2].items

\* scrape's for loop has run to its end and the lock is not yet released.
CycleWritten == scrape_pc = "insert" /\ ins > Len(Scrapers)

\* C3 (as claimed): when the extraction of source a has failed in a cycle
\* and that of source b has succeeded, a's entry is what it was before the
\* cycle and b's entry is b's newly extracted list.
C3_FailureIsolated ==
    \A a, b \in Names :
        (src[a].pc = "err" /\ SrcOk(b)) =>
            /\ EntryOf(feeds, a) = EntryOf(committed, a)
            /\ EntryOf(feeds, b) = Some(Collect(src[b].futs))

\* C4: a source whose extraction has failed in the current cycle has the
\* entry it had when the cycle began (the one of the last completed write,
\* or none).
C4_FailedSourceEntryUntouched ==
    \A n \in Names :
        src[n].pc = "err" => EntryOf(feeds, n) = EntryOf(committed, n)

\* C4 witness: RTE fails in the second cycle, having a non-empty entry.
C4_Witness ==
    /\ cycle = 2
    /\ src["RTE"].pc = "err"
    /\ "RTE" \in DOMAIN feeds
    /\ feeds["RTE"] # <<>>

\* C5 (as claimed): when the refresh of a source that already has an entry
\* fails, the server goes on answering and the refresh loop goes on running.
C5_FailureKeepsServingAndRetrying ==
    \A n \in Names :
        (n \in DOMAIN feeds /\ src[n].pc = "err") =>
            /\ Running
            /\ server_pc = "serving"
            /\ scrape_pc \in {"join", "insert", "sleep"}

\* C6: while no cycle has been written every request is answered 404; a
\* request for a name that has no entry is answered 404 without a body, and
\* only such a request is; a request for a name whose entry is the
\* empty list is answered 200 with no item.
C6_AbsentIs404EmptyIs200 ==
    /\ DOMAIN committed = {} => \A p \in sent : p.resp.status = 404
    /\ \A p \in sent :
        /\ p.name \notin DOMAIN feeds => (p.resp.status = 404 /\ p.resp.body = None)
        /\ p.resp.status = 404 => p.name \notin DOMAIN feeds
        /\ (p.name \in DOMAIN feeds /\ feeds[p.name] = <<>>) =>
               (p.resp.status = 200 /\ ItemsOf(p.resp) = <<>>)

\* C6 witness: a request for RTE was answered 200 with no item, the cycle
\* before having listed nothing.
C6_Witness ==
    \E p \in sent :
        /\ p.name = "RTE" /\ p.resp.status = 200 /\ ItemsOf(p.resp) = <<>>
        /\ feeds["RTE"] = <<>>

\* C7: when the for loop of a cycle has run, every source has an entry and
\* it is the list extracted for it in this cycle, whatever it was before.
C7_EntryIsThisCyclesList ==
    CycleWritten =>
        /\ DOMAIN feeds = Names
        /\ \A n \in Names :
              /\ Len(feeds[n]) = Len(src[n].entries)
              /\ \A i \in 1..Len(feeds[n]) :
                    /\ feeds[n][i] = src[n].futs[i].article
                    /\ feeds[n][i].link.path = src[n].entries[i].href[1]

\* C7 witness: the second cycle has replaced a non-empty list of RTE by a
\* different one.
C7_Witness ==
    /\ CycleWritten
    /\ cycle = 2
    /\ committed["RTE"] # <<>>
    /\ feeds["RTE"] # committed["RTE"]

\* C8: whenever a handler holds the lock, scrape is not in its for loop and
\* the map is the one scrape last released: every source has its entry of
\* one and the same completed cycle, or none has an entry yet.
C8_ReadersSeeCommittedMap ==
    \A r \in Requests :
        req[r].pc = "locked" =>
            /\ scrape_pc # "insert"
            /\ feeds = committed
            /\ DOMAIN feeds \in {{}, Names}

\* C8 witness: a handler holds the lock while scrape, its second cycle
\* extracted, waits for it.
C8_Witness ==
    /\ \E r \in Requests : req[r].pc = "locked"
    /\ scrape_pc = "join"
    /\ cycle = 2
    /\ \A n \in Names : SrcOk(n)

\* C9: a request for a name that has an entry is answered 200 with one item
\* per article of the entry, in its order; the i-th item has the i-th
\* headline as title and the i-th link as guid (a permalink) and as link.
C9_ItemsMirrorEntry ==
    \A p \in sent :
        p.name \in DOMAIN feeds =>
            LET feed == feeds[p.name]
            IN /\ p.resp.status = 200
               /\ Len(ItemsOf(p.resp)) = Len(feed)
               /\ \A i \in 1..Len(feed) :
                     /\ ItemsOf(p.resp)[i].title = feed[i].headline
                     /\ ItemsOf(p.resp)[i].guid.value = <<feed[i].link.origin, feed[i].link.path>>
                     /\ ItemsOf(p.resp)[i].guid.permalink
                     /\ ItemsOf(p.resp)[i].link = <<feed[i].link.origin, feed[i].link.path>>

\* C9 witness: a request for RTE was answered from an entry of two different
\* articles.
C9_Witness ==
    \E p \in sent :
        /\ p.name = "RTE" /\ p.resp.status = 200
        /\ Len(feeds["RTE"]) = 2
        /\ feeds["RTE"][1] # feeds["RTE"][2]

C11_EitherEndsBothEnd ==
    /\ (server_pc # "serving" \/ scrape_pc \in {"returned", "dropped"}) =>
          /\ main_pc = "exited"
          /\ server_pc \in {"returned", "dropped"}
          /\ scrape_pc \in {"returned", "dropped"}
          /\ (server_pc = "returned") # (scrape_pc = "returned")
          /\ \A r \in Requests : req[r].pc = "idle"
          /\ lock = Free
    /\ main_pc = "exited" => (server_pc # "serving" /\ scrape_pc \in {"returned", "dropped"})

\* C11 witness: scrape has returned an error in its second cycle, the map
\* filled by the first, and the server is dropped.
C11_Witness ==
    /\ scrape_pc = "returned"
    /\ server_pc = "dropped"
    /\ main_pc = "exited"
    /\ cycle = 2
    /\ DOMAIN feeds = Names

\* A step of a feed handler: an invocation changes while main stays in its
\* select!.
HandlerStep == main_pc' = "select" /\ req' # req

\* C12: a step of a feed handler leaves the map, the get_articles futures,
\* the cycle count and scrape's position as they are; and scrape holds the
\* lock only in its for loop, every list of the cycle extracted: never while
\* a request is in flight or while it sleeps, so a handler that waits for
\* the lock waits for inserts or for another handler.
C12_HandlersOnlyRead ==
    /\ [][HandlerStep => UNCHANGED <<feeds, committed, src, cycle, scrape_pc, ins>>]_vars
    /\ [](/\ lock = ByScrape => (scrape_pc = "insert" /\ \A n \in Names : SrcOk(n))
          /\ scrape_pc \in {"start", "join", "sleep"} => lock # ByScrape
          /\ \A r \in Requests :
                (req[r].pc = "wait" /\ lock # Free) =>
                    \/ lock = ByScrape /\ scrape_pc = "insert"
                    \/ \E q \in Requests : lock = ByReq(q) /\ req[q].pc = "locked")

\* C12 witness: a handler waits for the lock while scrape, in the for loop
\* of its second cycle, holds it.
C12_Witness ==
    /\ \E r \in Requests : req[r].pc = "wait"
    /\ lock = ByScrape
    /\ ins = 2
    /\ cycle = 2

\* The hrefs of the entries of a get_articles future, in document order.
HrefsOf(s) == [i \in 1..Len(s.entries) |-> s.entries[i].href[1]]

\* C13: every article get_articles returns has as link the url made of the
\* origin of its source's base url and the href of its entry, entry by
\* entry; for the hrefs /a, /b, /c the links are /a, /b and /c on that
\* origin, in that order.
C13_LinksResolvedAgainstBase ==
    \A n \in Names :
        SrcOk(n) =>
            LET out == Collect(src[n].futs)
                base == ScraperOf(n).base_url
            IN /\ Len(out) = Len(src[n].entries)
               /\ \A i \in 1..Len(out) :
                     AsStr(out[i].link) = <<base.origin, HrefsOf(src[n])[i]>>
               /\ HrefsOf(src[n]) = <<"/a", "/b", "/c">> =>
                     [i \in 1..3 |-> out[i].link] =
                        <<[origin |-> base.origin, path |-> "/a"],
                          [origin |-> base.origin, path |-> "/b"],
                          [origin |-> base.origin, path |-> "/c"]>>

\* C13 witness: get_articles of RTE has returned the articles of a listing
\* whose hrefs are /a, /b, /c.
C13_Witness == SrcOk("RTE") /\ HrefsOf(src["RTE"]) = <<"/a", "/b", "/c">>

\* C14: once the extraction of any source has failed in a cycle, scrape has
\* returned (and main with it) without taking the lock, the map is the one
\* the cycle began with, whatever the other sources extracted; and from
\* then on no cycle is begun, no extraction completes and the map is not
\* written.
C14_StrictJoin ==
    /\ [](\A n \in Names :
            src[n].pc = "err" =>
                /\ scrape_pc = "returned"
                /\ main_pc = "exited"
                /\ lock = Free
                /\ feeds = committed)
    /\ [][scrape_pc = "returned" => UNCHANGED <<cycle, src, feeds, scrape_pc>>]_vars

\* C14 witness: in the second cycle ALT has failed after RTE had extracted
\* a list that differs from its non-empty entry, which stays.
C14_Witness ==
    /\ cycle = 2
    /\ src["ALT"].pc = "err"
    /\ SrcOk("RTE")
    /\ feeds["RTE"] # <<>>
    /\ Collect(src["RTE"].futs) # feeds["RTE"]

\* C15: once the listing request of a source has failed, get_articles of
\* that source has returned an error: it has no get_article future (no page
\* request was sent), it is not Ok and has no article, and the failed
\* listing request is the only request of that source ever completed.
C15_ListingFailureFetchesNothing ==
    \A p \in 1..Len(log) :
        (log[p][2] = 0 /\ ~log[p][3]) =>
            /\ src[log[p][1]].pc = "err"
            /\ src[log[p][1]].futs = <<>>
            /\ ~SrcOk(log[p][1])
            /\ \A q \in 1..Len(log) : log[q][1] = log[p][1] => q = p

\* C15 witness: RTE's listing request has failed after ALT's listing and
\* page were fetched.
C15_Witness ==
    /\ Len(log) = 3
    /\ log[3] = <<"RTE", 0, FALSE>>
    /\ SrcOk("ALT")

\* The listing served to source n had an entry without href.
ServedEntryWithoutHref(n) ==
    \E p \in 1..Len(log) :
        /\ log[p][1] = n /\ log[p][2] = 0 /\ log[p][3]
        /\ \E k \in 1..Len(log[p][4].val) : log[p][4].val[k].href = None

\* A page served to source n had no src on its image match.
ServedPageWithoutSrc(n) ==
    \E p \in 1..Len(log) :
        log[p][1] = n /\ log[p][2] >= 1 /\ log[p][3] /\ log[p][4].val.img_src = None

\* A request of source n failed, or a page served to it had a date text
\* parse_date rejects.
ServedOtherFailure(n) ==
    \E p \in 1..Len(log) :
        /\ log[p][1] = n
        /\ \/ ~log[p][3]
           \/ log[p][2] >= 1 /\ log[p][3] /\ ~ParseDate(log[p][4].val.date_text, log[p][5]).ok

\* C16: a listing with an entry without href makes get_articles return an
\* error with no page request completed, that entry's least of all; with an
\* image selector configured, a page without src on the image match makes
\* get_articles return an error; without an image selector the image step
\* is Ok(None) on every document served, every article returned has no
\* image, and get_articles fails only for a missing href, a failed request
\* or a rejected date.
C16_MissingAttributeFailsAll ==
    \A n \in Names :
        /\ ServedEntryWithoutHref(n) =>
              /\ src[n].pc = "err" /\ ~SrcOk(n)
              /\ \A q \in 1..Len(log) : log[q][1] = n => log[q][2] = 0
        /\ (ScraperOf(n).image_selector # None /\ ServedPageWithoutSrc(n)) =>
              (src[n].pc = "err" /\ ~SrcOk(n))
        /\ ScraperOf(n).image_selector = None =>
              /\ \A p \in 1..Len(log) :
                    (log[p][1] = n /\ log[p][2] >= 1 /\ log[p][3]) =>
                        GetImage(ScraperOf(n), log[p][4].val) = Ok(None)
              /\ \A i \in 1..Len(src[n].futs) :
                    src[n].futs[i].st = "done" => src[n].futs[i].article.image = None
              /\ src[n].pc = "err" => (ServedEntryWithoutHref(n) \/ ServedOtherFailure(n))

\* C16 witness: ALT, which has an image selector, was served a page with an
\* image src for its first entry and then one without src for its second.
C16_Witness ==
    /\ Len(log) = 3
    /\ log[2][1] = "ALT" /\ log[2][2] = 1 /\ log[2][3] /\ log[2][4].val.img_src # None
    /\ log[3][1] = "ALT" /\ log[3][2] = 2 /\ log[3][3] /\ log[3][4].val.img_src = None
    /\ src["ALT"].pc = "err"

\* scrape moves from position a to position b.
ScrapeMoves(a, b) == scrape_pc = a /\ scrape_pc' = b

\* C17: scrape has returned only with an error (of the client's build, no
\* cycle begun, or of an extraction); a cycle is begun only at the start or
\* when a sleep ends, the map then being the one written before that sleep,
\* with every source's entry, and the lock released; from its join scrape
\* goes only to the for loop, every source extracted, from the for loop only
\* to the sleep, releasing the lock, from the sleep only to the next join
\* (or it ends with the process); and in the for loop or asleep it has a
\* next step.
C17_LoopNeverReturnsOk ==
    /\ [](scrape_pc = "returned" => (cycle = 0 \/ \E n \in Names : src[n].pc = "err"))
    /\ [](Running /\ scrape_pc = "insert" => ENABLED (ScrapeInsert \/ ScrapeUnlock))
    /\ [](Running /\ scrape_pc = "sleep" /\ cycle < MaxCycles => ENABLED SleepDone)
    /\ [][/\ cycle' # cycle =>
                /\ cycle' = cycle + 1
                /\ ScrapeMoves("start", "join") \/ ScrapeMoves("sleep", "join")
                /\ scrape_pc = "sleep" =>
                       (feeds = committed /\ DOMAIN feeds = Names /\ lock # ByScrape)
          /\ scrape_pc' # scrape_pc =>
                \/ scrape_pc' = "dropped"
                \/ ScrapeMoves("start", "join") /\ cycle' = 1
                \/ ScrapeMoves("start", "returned") \/ ScrapeMoves("join", "returned")
                \/ ScrapeMoves("join", "insert") /\ \A n \in Names : SrcOk(n)
                \/ /\ ScrapeMoves("insert", "sleep")
                   /\ ins > Len(Scrapers) /\ lock = ByScrape /\ lock' = Free
                \/ ScrapeMoves("sleep", "join") /\ cycle' = cycle + 1]_vars

\* C17 witness: scrape sleeps after its second cycle, the map written twice.
C17_Witness ==
    /\ Running
    /\ scrape_pc = "sleep"
    /\ cycle = 2
    /\ DOMAIN feeds = Names
    /\ feeds = committed

\* A page served to source n had a date text that matches the pattern and
\* names a local time Europe/Dublin skips.
ServedSkippedLocalTime(n) ==
    \E p \in 1..Len(log) :
        /\ log[p][1] = n /\ log[p][2] >= 1 /\ log[p][3]
        /\ ParseNaive(log[p][4].val.date_text).ok
        /\ ParseNaive(log[p][4].val.date_text).val \in DublinGap

\* C18 (as claimed): for every page served to RTE, a date text that does
\* not match the pattern gives Ok with the current instant as a
\* Europe/Dublin date-time; parse_date gives an error only for a text that
\* matches and names a local time Europe/Dublin skips; every date it gives
\* is in Europe/Dublin; and get_articles of RTE fails only for a missing
\* href, a failed request or such a skipped local time.
C18_DateFallbackIsNow ==
    /\ \A p \in 1..Len(log) :
          (log[p][1] = "RTE" /\ log[p][2] >= 1 /\ log[p][3]) =>
              LET text == log[p][4].val.date_text
                  date == ParseDate(text, log[p][5])
              IN /\ ~ParseNaive(text).ok => date = Ok(WithTimezone(log[p][5]))
                 /\ ~date.ok => (ParseNaive(text).ok /\ ParseNaive(text).val \in DublinGap)
                 /\ date.ok => date.val.tz = "Europe/Dublin"
    /\ src["RTE"].pc = "err" =>
          \/ ServedEntryWithoutHref("RTE")
          \/ ServedSkippedLocalTime("RTE")
          \/ \E p \in 1..Len(log) : log[p][1] = "RTE" /\ ~log[p][3]

\* C19: the keys of the map are names of the sources of the slice; no step
\* takes a key out of the map; and no response sent since the last insert
\* for a name that has an entry is a 404.
C19_EntriesNeverRemoved ==
    /\ [](DOMAIN feeds \subseteq Names /\ DOMAIN committed \subseteq DOMAIN feeds)
    /\ [][DOMAIN feeds \subseteq DOMAIN feeds']_vars
    /\ [](\A p \in sent : p.name \in DOMAIN feeds => p.resp.status # 404)

\* C19 witness: a request for RTE is answered 200 while the second refresh
\* of RTE is in flight.
C19_Witness ==
    /\ cycle = 2
    /\ scrape_pc = "join"
    /\ src["RTE"].pc = "listing"
    /\ \E p \in sent : p.name = "RTE" /\ p.resp.status = 200

====
